---- MODULE Spec2Model ----
(***************************************************************************)
(* A model of uncoverml's learning pipeline                                *)
(* (scripts/learningpipeline.py), run as an SPMD program by a fixed group  *)
(* of MPI workers, and of the later prediction run that reloads the model  *)
(* bundle (scripts/uncoverml.py).                                          *)
(*                                                                         *)
(* Every worker executes the same program text.  A worker's position is a  *)
(* label named after the source line it is about to execute.  Collective   *)
(* calls (run_once's broadcast, the reductions inside compose_features,    *)
(* comm.allgather) block the caller until the whole group has made a call  *)
(* of the same kind.                                                       *)
(***************************************************************************)
EXTENDS Integers, Sequences, FiniteSets, TLC

\* ------------------------------------------------------------------ bounds
MaxWorkers == 2      \* size of the MPI group ranges over 1..MaxWorkers
MaxRows == 2         \* targets that fall into one worker's image strip

\* ------------------------------------------------------------------ values
\* Python's None.  Every other value of the model is a record too, so that
\* any value can be compared with None.
None == [tag |-> "None"]

\* File names are sequences of characters: rstrip and sorted work on them.
Tif == <<".", "t", "i", "f">>
FileNames == { <<"l", "a", "i">> \o Tif,
               <<"l", "a", "t">> \o Tif,
               <<"d", "e", "m">> \o Tif }

\* The directories glob may find: none, one or two geotiffs.
Directories == { {},
                 { <<"d", "e", "m">> \o Tif },
                 { <<"d", "e", "m">> \o Tif, <<"l", "a", "t">> \o Tif },
                 { <<"l", "a", "i">> \o Tif, <<"l", "a", "t">> \o Tif } }

\* Keys of config.algdict, listed in ascending string order.
AlgorithmNames == <<"bayesreg", "krige", "nosuchalg", "svr">>
AlgDicts == { {"bayesreg"}, {"bayesreg", "svr"} }

\* Score names a cross-validation result carries (validation's score dict),
\* as strings of characters.
r2_score == <<"r", "2", "_", "s", "c", "o", "r", "e">>
smse == <<"s", "m", "s", "e">>
Measures == <<r2_score, smse>>

\* ord() of the characters used in file names and score names.
Ord(c) ==
    CASE c = "." -> 46
      [] c = "2" -> 50
      [] c = "_" -> 95
      [] c = "a" -> 97
      [] c = "c" -> 99
      [] c = "d" -> 100
      [] c = "e" -> 101
      [] c = "f" -> 102
      [] c = "g" -> 103
      [] c = "i" -> 105
      [] c = "l" -> 108
      [] c = "m" -> 109
      [] c = "o" -> 111
      [] c = "r" -> 114
      [] c = "s" -> 115
      [] c = "t" -> 116

\* Python's str < str: lexicographic on code points, a proper prefix first.
RECURSIVE StrLess(_, _)
StrLess(a, b) ==
    IF b = <<>> THEN FALSE
    ELSE IF a = <<>> THEN TRUE
    ELSE IF Ord(Head(a)) < Ord(Head(b)) THEN TRUE
    ELSE IF Ord(Head(a)) > Ord(Head(b)) THEN FALSE
    ELSE StrLess(Tail(a), Tail(b))

\* str.rstrip(chars): drops every trailing character that is in chars.
RECURSIVE rstrip(_, _)
rstrip(s, chars) ==
    IF s # <<>> /\ s[Len(s)] \in chars
    THEN rstrip(SubSeq(s, 1, Len(s) - 1), chars)
    ELSE s

\* All orders in which a directory listing can return the files.
Perms(S) ==
    { f \in [1..Cardinality(S) -> S] : \A i, j \in DOMAIN f : f[i] = f[j] => i = j }

Range(f) == { f[i] : i \in DOMAIN f }

RECURSIVE SumSeq(_)
SumSeq(s) == IF s = <<>> THEN 0 ELSE Head(s) + SumSeq(Tail(s))

RECURSIVE Flatten(_)
Flatten(ss) == IF ss = <<>> THEN <<>> ELSE Head(ss) \o Flatten(Tail(ss))

\* ---------------------------------------------------------------- ordered dicts
\* A dict is a sequence of items [key, val] in insertion order.
Keys(d) == [i \in DOMAIN d |-> d[i].key]
Values(d) == [i \in DOMAIN d |-> d[i].val]
HasKey(d, k) == \E i \in DOMAIN d : d[i].key = k
Get(d, k) == d[CHOOSE i \in DOMAIN d : d[i].key = k].val
\* d[k] = v : replaces the value of an existing key in place, else appends.
DictSet(d, k, v) ==
    IF HasKey(d, k)
    THEN [i \in DOMAIN d |-> IF d[i].key = k THEN [key |-> k, val |-> v] ELSE d[i]]
    ELSE Append(d, [key |-> k, val |-> v])
\* del d[k]
DictDel(d, k) == SelectSeq(d, LAMBDA it : it.key # k)

\* sorted(items, key=lambda t: t[0]) and sorted(keys): insertion sort, stable.
RECURSIVE InsertItem(_, _)
InsertItem(sorted, it) ==
    IF sorted = <<>> THEN <<it>>
    ELSE IF StrLess(it.key, Head(sorted).key) THEN <<it>> \o sorted
    ELSE <<Head(sorted)>> \o InsertItem(Tail(sorted), it)

RECURSIVE SortedItems(_)
SortedItems(items) ==
    IF items = <<>> THEN <<>>
    ELSE InsertItem(SortedItems(SubSeq(items, 1, Len(items) - 1)), items[Len(items)])

SortedKeys(d) == Keys(SortedItems(d))

\* ------------------------------------------------------------------ state
VARIABLES
    prog,       \* the program the group runs: "run_pipeline" or "learn"
    nworkers,   \* size of the MPI group (mpiops.chunks)
    tifs,       \* the geotiffs in config.data_dir
    config,     \* the pipeline configuration
    data,       \* per worker: its targets and what each geotiff yields for them
    wk,         \* per worker: position, local variables, pending collective
    effects,    \* log of the functions executed through run_once (or directly)
    files,      \* the output directory
    pred,       \* the later prediction run
    pure        \* argument and result of a function applied on its own

vars == <<prog, nworkers, tifs, config, data, wk, effects, files, pred, pure>>

Workers == 0 .. nworkers - 1

\* ------------------------------------------------------------------ input data
\* Worker w holds nloc targets, a contiguous slice of the sorted targets.
Offset(w) == SumSeq([v \in 1..w |-> data[v - 1].nloc])
Local(w) == [i \in 1..data[w].nloc |-> Offset(w) + i]
NTargets == SumSeq([v \in 1..nworkers |-> data[v - 1].nloc])

\* A feature matrix: its rows (sample ids), its columns (one per source) and
\* the ComposeSettings statistics it was transformed with (None when raw).
NdArray(rows, cols, by) == [tag |-> "ndarray", rows |-> rows, cols |-> cols, by |-> by]

\* What a geotiff yields for a worker's targets: nothing, a row per target,
\* or rows for only part of them (the raster covers part of the strip).
CoverKinds(n) ==
    IF n = 0 THEN {"none"} ELSE IF n = 1 THEN {"none", "full"}
    ELSE {"none", "full", "part"}

\* pipeline.extract_features(image_source, targets, s)[0]
extract_features(w, name) ==
    CASE data[w].cov[name] = "none" -> None
      [] data[w].cov[name] = "full" -> NdArray(Local(w), <<name>>, None)
      [] data[w].cov[name] = "part" ->
            NdArray(SubSeq(Local(w), 1, data[w].nloc - 1), <<name>>, None)

\* geoio.load_shapefile + datatypes.CrossValTargets(..., sort=True)
get_targets == [tag |-> "targets", ids |-> [i \in 1..NTargets |-> i],
                folds |-> config.folds, seed |-> config.seed]

\* ------------------------------------------------------------------ numpy
\* np.ma.concatenate(arrays, axis=1): needs at least one array, and the same
\* number of rows in each; otherwise it raises ValueError.
CanConcatenate(xs) ==
    /\ xs # <<>>
    /\ \A i \in DOMAIN xs : Len(xs[i].rows) = Len(xs[1].rows)

concatenate(xs) ==
    NdArray(xs[1].rows, Flatten([i \in DOMAIN xs |-> xs[i].cols]), None)

\* np.ma.vstack(arrays): needs at least one array, and the same columns in
\* each; otherwise it raises ValueError.
CanVstack(xs) ==
    /\ xs # <<>>
    /\ \A i \in DOMAIN xs : Len(xs[i].cols) = Len(xs[1].cols)

vstack(xs) ==
    NdArray(Flatten([i \in DOMAIN xs |-> xs[i].rows]), xs[1].cols, xs[1].by)

\* ------------------------------------------------------------------ pipeline
\* datatypes.ComposeSettings(...) as run_pipeline constructs it.
ComposeSettings ==
    [tag |-> "ComposeSettings", impute |-> config.impute,
     transform |-> config.transform, featurefraction |-> config.pca_frac,
     impute_mean |-> None, mean |-> None, sd |-> None,
     eigvals |-> None, eigvecs |-> None]

\* The statistics the group derives from everybody's local matrix: which
\* columns and which rows (in rank order) they were computed over.
GlobalStats(xs) ==
    LET present == SelectSeq(xs, LAMBDA x : x # None)
    IN  [tag |-> "stats",
         cols |-> IF present = <<>> THEN <<>> ELSE present[1].cols,
         rows |-> Flatten([i \in DOMAIN present |-> present[i].rows])]

\* pipeline.compose_features(x, settings), the settings part: statistics not
\* yet computed are computed from the whole group's data and stored in the
\* settings object that was passed in; statistics already there are reused.
compose_settings_after(settings, xs) ==
    IF settings.mean = None
    THEN LET st == GlobalStats(xs)
         IN  [settings EXCEPT !.impute_mean = st, !.mean = st, !.sd = st,
                              !.eigvals = st, !.eigvecs = st]
    ELSE settings

\* pipeline.compose_features(x, settings), the data part: no data stays no
\* data; a matrix keeps its rows and is transformed with the statistics.
compose_x(x, settings) ==
    IF x = None THEN None ELSE [x EXCEPT !.by = settings.mean]

\* A stand-in for the numbers validation computes: any deterministic function
\* of the dataset and the measure.
CVScore(X, m) ==
    IF m = r2_score
    THEN SumSeq([i \in DOMAIN X.cols |-> Ord(X.cols[i][3]) % 3])
    ELSE Len(X.rows)

\* pipeline.cross_validate(X, targets, algorithm, args)
cross_validate(X, targets, algorithm) ==
    [tag |-> "crossval", algorithm |-> algorithm, X |-> X, targets |-> targets,
     scores |-> [i \in DOMAIN Measures |->
                    [key |-> Measures[i], val |-> CVScore(X, Measures[i])]]]

\* pipeline.learn_model(X, targets, algorithm, args)
learn_model(X, targets, algorithm) ==
    [tag |-> "model", algorithm |-> algorithm, X |-> X, targets |-> targets]

\* ------------------------------------------------------------ krige.Krige
MaxCalls == 4        \* calls made on one Krige object

\* krige.py lines 16-17: the registry of kriging methods.
krige_methods == [ordinary |-> "OrdinaryKriging", universal |-> "UniversalKriging"]

MethodNames == {"ordinary", "universal", "simple"}

\* Point sets handed to fit and predict, and observations.
PointSets == { <<1>>, <<1, 2>> }

\* An exception of the given class.
Exc(name) == [tag |-> name]

\* The constructor without the check of lines 23-25.
Krige_init_unchecked(method) ==
    [raised |-> None,
     self |-> [tag |-> "Krige", model |-> None, method |-> method]]

\* Krige.__init__(method), lines 22-29.
Krige_init(method) ==
    IF method \notin DOMAIN krige_methods
    THEN [raised |-> Exc("ConfigException"), self |-> None]
    ELSE [raised |-> None,
          self |-> [tag |-> "Krige", model |-> None, method |-> method]]

\* Krige.fit(x, y), lines 31-44.
Krige_fit(self, x, y) ==
    [raised |-> None, value |-> None,
     self |-> [self EXCEPT !.model = [tag |-> krige_methods[self.method],
                                      x |-> x, z |-> y]]]

\* Krige.predict_proba(x), lines 46-54: self.model.execute(...) on None
\* raises AttributeError.
Krige_predict_proba(self, x) ==
    IF self.model = None
    THEN [raised |-> Exc("AttributeError"), value |-> None, self |-> self]
    ELSE [raised |-> None, self |-> self,
          value |-> << [tag |-> "prediction", model |-> self.model, at |-> x],
                       [tag |-> "variance", model |-> self.model, at |-> x],
                       [tag |-> "ql", model |-> self.model, at |-> x],
                       [tag |-> "qu", model |-> self.model, at |-> x] >>]

\* Krige.predict(x), lines 56-57.
Krige_predict(self, x) ==
    LET r == Krige_predict_proba(self, x)
    IN  IF r.raised # None THEN r ELSE [r EXCEPT !.value = r.value[1]]

\* ------------------------------------------------------- the model registry
\* The algorithms pipeline.learn_model and pipeline.cross_validate know.
modelmaps == {"bayesreg", "krige", "svr"}

\* What instantiating the model of `algorithm` with its arguments raises
\* (None when it succeeds): an identifier outside the registry is a
\* configuration error, and so is a Krige method outside krige_methods.
ModelError(algorithm) ==
    IF algorithm \notin modelmaps THEN "ConfigError"
    ELSE IF algorithm = "krige" /\ Krige_init(config.method).raised # None
    THEN "ConfigException"
    ELSE ""

\* --------------------------------------------------------- learningpipeline
\* gather_data, line 148
has_data(chunks) ==
    ~ (TRUE \in { Values(chunks)[i] = None : i \in DOMAIN chunks })

\* rank_features, lines 138-144: (measures, features, scores)
RankTable(feature_scores) ==
    LET measures == Keys(Values(feature_scores)[1].scores)
        features == SortedKeys(feature_scores)
    IN  [measures |-> measures,
         features |-> features,
         scores |-> [m \in DOMAIN measures |->
                       [f \in DOMAIN features |->
                          Get(Get(feature_scores, features[f]).scores, measures[m])]]]

\* sorted(pairs, key=lambda s: s[1]): ascending by score, stable.
RECURSIVE InsertByScore(_, _)
InsertByScore(sorted, p) ==
    IF sorted = <<>> THEN <<p>>
    ELSE IF p[2] < Head(sorted)[2] THEN <<p>> \o sorted
    ELSE <<Head(sorted)>> \o InsertByScore(Tail(sorted), p)

RECURSIVE SortedByScore(_)
SortedByScore(pairs) ==
    IF pairs = <<>> THEN <<>>
    ELSE InsertByScore(SortedByScore(SubSeq(pairs, 1, Len(pairs) - 1)),
                       pairs[Len(pairs)])

\* zip(a, b)
Min(a, b) == IF a < b THEN a ELSE b
Zip(a, b) == [i \in 1..Min(Len(a), Len(b)) |-> <<a[i], b[i]>>]

Reverse(q) == [i \in DOMAIN q |-> q[Len(q) + 1 - i]]

\* Lines 168-173 with the reversal of lines 172-173 switched on.
ranked_scores_reversing(measure, features, measure_scores) ==
    IF measure = smse
    THEN Reverse(SortedByScore(Zip(features, measure_scores)))
    ELSE SortedByScore(Zip(features, measure_scores))

\* export_feature_ranks, lines 168-173: the (feature, score) pairs of one
\* measure, sorted by score; nothing is reversed.
ranked_scores(measure, features, measure_scores) ==
    SortedByScore(Zip(features, measure_scores))

\* export_feature_ranks, lines 165-180: score_listing after the first n
\* (measure, measure_scores) pairs; a measure named again replaces its
\* earlier entry.
RECURSIVE score_listing(_, _, _)
score_listing(rows, features, n) ==
    IF n = 0 THEN [scores |-> <<>>, ranks |-> <<>>]
    ELSE LET prev == score_listing(rows, features, n - 1)
             srt == ranked_scores(rows[n][1], features, rows[n][2])
         IN  [scores |-> DictSet(prev.scores, rows[n][1],
                                 [j \in DOMAIN srt |-> srt[j][2]]),
              ranks |-> DictSet(prev.ranks, rows[n][1],
                                [j \in DOMAIN srt |-> srt[j][1]])]

\* export_feature_ranks, line 176: zip(*scores) of a measure without
\* (feature, score) pairs cannot be unpacked into two names.
export_feature_ranks_raises(measures, features, scores) ==
    LET rows == Zip(measures, scores)
    IN  \E i \in DOMAIN rows : Zip(features, rows[i][2]) = <<>>

\* export_feature_ranks, lines 160-184: the JSON file written, its keys
\* sorted (sort_keys=True), or the exception that leaves no file.
export_feature_ranks(measures, features, scores) ==
    IF export_feature_ranks_raises(measures, features, scores)
    THEN Exc("ValueError")
    ELSE LET rows == Zip(measures, scores)
             listing == score_listing(rows, features, Len(rows))
         IN  [ranks |-> SortedItems(listing.ranks),
              scores |-> SortedItems(listing.scores)]

\* export_model, lines 190-192: the state_dict that is pickled.
export_model(model, image_settings, compose_settings) ==
    << [key |-> "model", val |-> model],
       [key |-> "image_settings", val |-> image_settings],
       [key |-> "compose_settings", val |-> compose_settings] >>

\* sorted(config.algdict.keys())
Algorithms == SelectSeq(AlgorithmNames, LAMBDA a : a \in config.algdict)

\* ------------------------------------------------------------------ workers
\* A worker at the start of its program.
NewWorker(start) ==
    [pc |-> start, error |-> None, algorithm |-> "", alg |-> 1, pass |-> 1,
     targets |-> None, targets_all |-> None,
     extracted_chunks |-> <<>>, image_settings |-> <<>>,
     compose_settings |-> None, compose_missing |-> None,
     fname |-> None, feature_scores |-> <<>>,
     gd |-> None, x |-> None, x_all |-> None, X |-> None,
     crossval_results |-> None, model |-> None,
     pending |-> None, calls |-> <<>>]

\* Worker w is about to execute the line labelled l.
At(w, l) == wk[w].pc = l /\ wk[w].pending = None

\* An uncaught exception ends the worker's program.
Raise(rec, err) == [rec EXCEPT !.pc = "raised", !.error = err]

\* The worker enters a collective call and blocks in it; next is the label
\* it continues at, dest the local variable the result is assigned to.
Call(rec, kind, fn, arg, next, dest) ==
    [rec EXCEPT !.pending = [tag |-> "call", kind |-> kind, fn |-> fn, arg |-> arg,
                             next |-> next, dest |-> dest],
                !.calls = Append(@, <<kind, fn>>)]

AllPending(kind) ==
    \A w \in Workers : wk[w].pending # None /\ wk[w].pending.kind = kind

\* The arguments of the group's pending calls, in rank order.
PendingArgs == [i \in 1..nworkers |-> wk[i - 1].pending.arg]

\* geoio.export_model(model, config), as the learn command calls it.
geoio_export_model(model, cfg) ==
    << [key |-> "model", val |-> model], [key |-> "config", val |-> cfg] >>

\* geoio.export_cluster_model(model, config): the bundle a later predict
\* reads like a model bundle.
geoio_export_cluster_model(model, cfg) ==
    << [key |-> "model", val |-> model], [key |-> "config", val |-> cfg] >>

\* What executing fn(arg) leaves in the output directory.
FilesAfter(fn, arg) ==
    CASE fn = "write_targets" -> [files EXCEPT !.targets = arg.targets]
      [] fn = "export_feature_ranks" ->
            IF export_feature_ranks_raises(arg.measures, arg.features, arg.scores)
            THEN files
            ELSE [files EXCEPT !.featureranks =
                    DictSet(@, arg.algorithm,
                            export_feature_ranks(arg.measures, arg.features,
                                                 arg.scores))]
      [] fn = "export_scores" ->
            [files EXCEPT !.scores = DictSet(@, arg.algorithm, arg.crossval)]
      [] fn = "export_model" ->
            [files EXCEPT !.state =
                DictSet(@, arg.algorithm,
                        export_model(arg.model, arg.image_settings,
                                     arg.compose_settings))]
      [] fn = "geoio.export_model" ->
            [files EXCEPT !.state =
                DictSet(@, arg.algorithm, geoio_export_model(arg.model, arg.config))]
      [] fn = "geoio.export_cluster_model" ->
            [files EXCEPT !.state =
                DictSet(@, arg.algorithm,
                        geoio_export_cluster_model(arg.model, arg.config))]
      [] OTHER -> files

\* Worker `rank` executes fn(arg).
Exec(rank, fn, arg) ==
    /\ effects' = Append(effects, [rank |-> rank, fn |-> fn,
                                   algorithm |-> arg.algorithm])
    /\ files' = FilesAfter(fn, arg)

\* mpiops.run_once(fn, ...) as a worker calls it: it blocks in the broadcast.
RunOnce(w, rec, fn, arg, next, dest) ==
    /\ wk' = [wk EXCEPT ![w] = Call(rec, "bcast", fn, arg, next, dest)]
    /\ UNCHANGED <<effects, files>>

\* fn(...) called directly, on whichever worker gets there.
Direct(w, rec, fn, arg, next) ==
    /\ wk' = [wk EXCEPT ![w] = [rec EXCEPT !.pc = next]]
    /\ Exec(w, fn, arg)

\* A step that touches nothing but the worker's own variables.
LocalStep(w, rec) ==
    /\ wk' = [wk EXCEPT ![w] = rec]
    /\ UNCHANGED <<effects, files>>

Frame == UNCHANGED <<prog, nworkers, tifs, config, data, pred, pure>>

\* mpiops.run_once, once the whole group is in it: the coordinator executes
\* the function, the result is broadcast, everyone continues.
RunOnceComplete ==
    /\ AllPending("bcast")
    /\ LET root == wk[0].pending
           result == IF root.fn = "get_targets" THEN get_targets ELSE None
           raises == /\ root.fn = "export_feature_ranks"
                     /\ export_feature_ranks_raises(root.arg.measures,
                                                    root.arg.features,
                                                    root.arg.scores)
       IN  /\ Exec(0, root.fn, root.arg)
           /\ wk' = IF raises
                    THEN [wk EXCEPT ![0] = Raise([wk[0] EXCEPT !.pending = None],
                                                "ValueError")]
                    ELSE [w \in Workers |->
                            [wk[w] EXCEPT !.pending = None,
                                          !.pc = wk[w].pending.next,
                                          !.targets = IF wk[w].pending.dest = "targets"
                                                      THEN result ELSE @]]
    /\ Frame

\* pipeline.compose_features(x, compose_settings), once the whole group is in
\* it (gather_data line 153): the settings object passed in is filled in,
\* the local matrix is transformed.
ComposeComplete ==
    /\ AllPending("compose")
    /\ wk' = [w \in Workers |->
                LET rec == wk[w]
                    old == IF rec.gd.ref = "compose_settings"
                           THEN rec.compose_settings ELSE rec.compose_missing
                    new == compose_settings_after(old, PendingArgs)
                IN  [rec EXCEPT
                       !.pending = None,
                       !.pc = rec.pending.next,
                       !.compose_settings =
                           IF rec.gd.ref = "compose_settings" THEN new ELSE @,
                       !.compose_missing =
                           IF rec.gd.ref = "compose_missing" THEN new ELSE @,
                       !.gd.x_out = compose_x(rec.pending.arg, new)]]
    /\ UNCHANGED <<effects, files>>
    /\ Frame

\* comm.allgather(value), once the whole group is in it: everyone receives
\* the group's values in rank order.
AllgatherComplete ==
    /\ AllPending("allgather")
    /\ wk' = [w \in Workers |->
                LET rec == wk[w]
                IN  [rec EXCEPT
                       !.pending = None,
                       !.pc = rec.pending.next,
                       !.gd = IF rec.pending.dest = "X_list"
                              THEN [@ EXCEPT !.X_list = PendingArgs] ELSE @,
                       !.targets_all = IF rec.pending.dest = "targets_all"
                                       THEN Flatten(PendingArgs) ELSE @,
                       !.x_all = IF rec.pending.dest = "x_all"
                                 THEN PendingArgs ELSE @]]
    /\ UNCHANGED <<effects, files>>
    /\ Frame

\* ------------------------------------------------------------ gather_data
\* gather_data composing only when the worker has data: a worker without
\* data goes straight to the allgather.
gather_data_compose_if_data(rec, chunks, ref, ret) ==
    LET xs == Values(chunks)
        frame(x) == [tag |-> "gather_data", chunks |-> chunks, ref |-> ref,
                     ret |-> ret, x |-> x, x_out |-> None, X_list |-> <<>>]
    IN  IF ~ has_data(chunks)
        THEN [rec EXCEPT !.gd = frame(None), !.pc = "L155"]
        ELSE IF ~ CanConcatenate(xs)
        THEN Raise(rec, "ValueError")
        ELSE Call([rec EXCEPT !.gd = frame(concatenate(xs))],
                  "compose", "compose_features", concatenate(xs), "L155", "")

\* gather_data concatenating whichever chunks are present.
gather_data_present_chunks(rec, chunks, ref, ret) ==
    LET xs == SelectSeq(Values(chunks), LAMBDA k : k # None)
        x == IF xs = <<>> THEN None ELSE concatenate(xs)
        frame == [tag |-> "gather_data", chunks |-> chunks, ref |-> ref,
                  ret |-> ret, x |-> x, x_out |-> None, X_list |-> <<>>]
    IN  IF xs # <<>> /\ ~ CanConcatenate(xs)
        THEN Raise(rec, "ValueError")
        ELSE Call([rec EXCEPT !.gd = frame],
                  "compose", "compose_features", x, "L155", "")

\* gather_data(extracted_chunks, compose_settings), lines 148-153, up to the
\* collective inside compose_features.  ref names the settings object the
\* caller passed, ret the caller.
gather_data(rec, chunks, ref, ret) ==
    LET xs == Values(chunks)
    IN  IF has_data(chunks) /\ ~ CanConcatenate(xs)
        THEN Raise(rec, "ValueError")
        ELSE LET x == IF has_data(chunks) THEN concatenate(xs) ELSE None
             IN  Call([rec EXCEPT !.gd = [tag |-> "gather_data", chunks |-> chunks,
                                          ref |-> ref, ret |-> ret, x |-> x,
                                          x_out |-> None, X_list |-> <<>>]],
                      "compose", "compose_features", x, "L155", "")

\* gather_data, line 155
gather_data_allgather(w) ==
    /\ At(w, "L155")
    /\ LocalStep(w, Call(wk[w], "allgather", "allgather", wk[w].gd.x_out,
                         "L156", "X_list"))
    /\ Frame

\* gather_data, line 156: the arrays that are stacked.
Stacked(X_list) == SelectSeq(X_list, LAMBDA k : k # None)

\* gather_data returning the first contribution instead of the stack.
gather_data_X_first(X_list) ==
    IF CanVstack(Stacked(X_list)) THEN Stacked(X_list)[1] ELSE None

\* gather_data returning an empty matrix when there is nothing to stack.
gather_data_X_or_empty(X_list) ==
    IF CanVstack(Stacked(X_list)) THEN vstack(Stacked(X_list))
    ELSE NdArray(<<>>, <<>>, None)

\* gather_data, lines 156-157: the X returned, or None when vstack raises.
gather_data_X(X_list) ==
    IF CanVstack(Stacked(X_list)) THEN vstack(Stacked(X_list)) ELSE None

\* ------------------------------------------------------------ run_pipeline
\* Every worker calling get_targets itself.
run_pipeline_targets_direct(w) ==
    /\ prog = "run_pipeline"
    /\ At(w, "L68")
    /\ Direct(w, [wk[w] EXCEPT !.targets = get_targets], "get_targets",
              [algorithm |-> None], "L73")
    /\ Frame

\* lines 67-72: targets = mpiops.run_once(get_targets, ...)
run_pipeline_targets(w) ==
    /\ prog = "run_pipeline"
    /\ At(w, "L68")
    /\ RunOnce(w, wk[w], "get_targets", [algorithm |-> None], "L73", "targets")
    /\ Frame

\* lines 73-76: if config.export_targets: mpiops.run_once(geoio.write_targets, ...)
run_pipeline_export_targets(w) ==
    /\ At(w, "L73")
    /\ IF config.export_targets
       THEN RunOnce(w, wk[w], "write_targets",
                    [algorithm |-> None, targets |-> wk[w].targets], "L79", "")
       ELSE LocalStep(w, [wk[w] EXCEPT !.pc = "L79"])
    /\ Frame

\* extract returning the chunks in the order glob listed them.
extract_in_listing_order(w, listing) ==
    [i \in DOMAIN listing |->
        [key |-> listing[i], val |-> extract_features(w, listing[i])]]

\* extract(targets, config), lines 42-61, for the listing order glob gave.
extract(w, listing) ==
    LET extracted_chunks ==
            [i \in DOMAIN listing |->
                [key |-> listing[i], val |-> extract_features(w, listing[i])]]
    IN  SortedItems(extracted_chunks)

\* lines 79-89: extract, then the initial ComposeSettings.  With no geotiff
\* in the directory extract calls sys.exit(-1).
run_pipeline_extract(w) ==
    /\ At(w, "L79")
    /\ \E listing \in Perms(tifs) :
          IF Len(listing) = 0
          THEN LocalStep(w, [wk[w] EXCEPT !.pc = "exited", !.error = "SystemExit"])
          ELSE LocalStep(w, [wk[w] EXCEPT
                  !.extracted_chunks = extract(w, listing),
                  !.image_settings = tifs,
                  !.compose_settings = ComposeSettings,
                  !.alg = 1,
                  !.pc = "L91"])
    /\ Frame

\* lines 91-97: the first loop over the algorithms; its body does something
\* only when config.rank_features is set, so without it the loop is left.
run_pipeline_rank_loop(w) ==
    /\ At(w, "L91")
    /\ LET rec == wk[w]
       IN  IF rec.alg > Len(Algorithms) \/ ~ config.rank_features
           THEN LocalStep(w, [rec EXCEPT !.pc = "L102"])
           ELSE LocalStep(w, [rec EXCEPT !.pc = "L122", !.pass = 1,
                                         !.feature_scores = <<>>])
    /\ Frame

\* A pass composing with the caller's settings object itself.
rank_features_gather_shared(rec, dict_missing) ==
    gather_data(rec, dict_missing, "compose_settings", "rank")

\* rank_features, lines 130-131: each pass composes with its own deep copy
\* of the caller's settings.
rank_features_gather(rec, dict_missing) ==
    gather_data([rec EXCEPT !.compose_missing = rec.compose_settings],
                dict_missing, "compose_missing", "rank")

\* A pass deleting the source from the caller's dictionary itself.
rank_features_pass_in_place(w) ==
    /\ At(w, "L122")
    /\ wk[w].pass <= Len(wk[w].extracted_chunks)
    /\ LET rec == wk[w]
           name == Keys(rec.extracted_chunks)[rec.pass]
           dict_missing == DictDel(rec.extracted_chunks, name)
           fname == rstrip(name, {".", "t", "i", "f"})
       IN  LocalStep(w, rank_features_gather(
                           [rec EXCEPT !.fname = fname,
                                       !.extracted_chunks = dict_missing],
                           dict_missing))
    /\ Frame

\* rank_features, lines 122-131: one leave-one-out pass, up to the first
\* collective of its gather_data.
rank_features_pass(w) ==
    /\ At(w, "L122")
    /\ wk[w].pass <= Len(wk[w].extracted_chunks)
    /\ LET rec == wk[w]
           name == Keys(rec.extracted_chunks)[rec.pass]
           dict_missing == DictDel(rec.extracted_chunks, name)
           fname == rstrip(name, {".", "t", "i", "f"})
       IN  LocalStep(w, rank_features_gather([rec EXCEPT !.fname = fname],
                                             dict_missing))
    /\ Frame

\* gather_data lines 156-157 and rank_features lines 132-134: the pass's
\* dataset is stacked, cross-validated, and the result stored under fname.
rank_features_score(w) ==
    /\ At(w, "L156")
    /\ wk[w].gd.ret = "rank"
    /\ LET rec == wk[w]
           X == gather_data_X(rec.gd.X_list)
           results == cross_validate(X, rec.targets, Algorithms[rec.alg])
       IN  IF X = None
           THEN LocalStep(w, Raise(rec, "ValueError"))
           ELSE IF ModelError(Algorithms[rec.alg]) # ""
           THEN LocalStep(w, Raise(rec, ModelError(Algorithms[rec.alg])))
           ELSE LocalStep(w, [rec EXCEPT
                   !.feature_scores = DictSet(@, rec.fname, results),
                   !.pass = @ + 1,
                   !.pc = "L122"])
    /\ Frame

\* rank_features lines 138-144 and run_pipeline lines 98-99: the table of
\* scores is built and handed to run_once(export_feature_ranks, ...).
run_pipeline_export_ranks(w) ==
    /\ At(w, "L122")
    /\ wk[w].pass > Len(wk[w].extracted_chunks)
    /\ LET rec == wk[w]
           t == RankTable(rec.feature_scores)
       IN  RunOnce(w, [rec EXCEPT !.alg = @ + 1], "export_feature_ranks",
                   [algorithm |-> Algorithms[rec.alg], measures |-> t.measures,
                    features |-> t.features, scores |-> t.scores],
                   "L91", "")
    /\ Frame

\* line 102: X = gather_data(extracted_chunks, compose_settings), up to the
\* first collective.
run_pipeline_gather(w) ==
    /\ At(w, "L102")
    /\ LocalStep(w, gather_data(wk[w], wk[w].extracted_chunks,
                                "compose_settings", "main"))
    /\ Frame

\* gather_data lines 156-157, returning to line 102.
run_pipeline_gathered(w) ==
    /\ At(w, "L156")
    /\ wk[w].gd.ret = "main"
    /\ LET rec == wk[w]
           X == gather_data_X(rec.gd.X_list)
       IN  IF X = None
           THEN LocalStep(w, Raise(rec, "ValueError"))
           ELSE LocalStep(w, [rec EXCEPT !.X = X, !.alg = 1, !.pc = "L104"])
    /\ Frame

\* lines 104-110: the second loop; cross-validation and its export.
run_pipeline_crossval(w) ==
    /\ At(w, "L104")
    /\ LET rec == wk[w]
       IN  IF rec.alg > Len(Algorithms)
           THEN LocalStep(w, [rec EXCEPT !.pc = "done"])
           ELSE IF config.cross_validate /\ ModelError(Algorithms[rec.alg]) # ""
           THEN LocalStep(w, Raise(rec, ModelError(Algorithms[rec.alg])))
           ELSE IF config.cross_validate
           THEN LET results == cross_validate(rec.X, rec.targets, Algorithms[rec.alg])
                IN  RunOnce(w, [rec EXCEPT !.crossval_results = results],
                            "export_scores",
                            [algorithm |-> Algorithms[rec.alg], crossval |-> results],
                            "L112", "")
           ELSE LocalStep(w, [rec EXCEPT !.pc = "L112"])
    /\ Frame

\* The export called directly rather than through run_once.
run_pipeline_export_model_direct(w, rec, arg) ==
    Direct(w, rec, "export_model", arg, "L104")

\* lines 113-114: mpiops.run_once(export_model, model, image_settings,
\* compose_settings, algorithm, config)
run_pipeline_export_model(w, rec, arg) ==
    RunOnce(w, rec, "export_model", arg, "L104", "")

\* lines 112-114: the model is learned and handed to the export.
run_pipeline_learn(w) ==
    /\ At(w, "L112")
    /\ LET rec == wk[w]
           model == learn_model(rec.X, rec.targets, Algorithms[rec.alg])
       IN  IF ModelError(Algorithms[rec.alg]) # ""
           THEN LocalStep(w, Raise(rec, ModelError(Algorithms[rec.alg])))
           ELSE run_pipeline_export_model(w,
                   [rec EXCEPT !.model = model, !.alg = @ + 1],
                   [algorithm |-> Algorithms[rec.alg], model |-> model,
                    image_settings |-> rec.image_settings,
                    compose_settings |-> rec.compose_settings])
    /\ Frame

\* ------------------------------------------------------- the learn command
\* uncoverml.py lines 103-106: every worker loads its targets, then
\* targets_all = ls.targets.gather_targets(targets)
learn_targets(w) ==
    /\ prog = "learn"
    /\ At(w, "U103")
    /\ LocalStep(w, Call([wk[w] EXCEPT !.targets = Local(w)],
                         "allgather", "gather_targets", Local(w),
                         "U109", "targets_all"))
    /\ Frame

\* uncoverml.py lines 109-119: the image chunks, and the feature ranking
\* with its export.
learn_rank(w) ==
    /\ At(w, "U109")
    /\ \E listing \in Perms(tifs) :
          LET rec == [wk[w] EXCEPT !.extracted_chunks = extract(w, listing),
                                   !.compose_settings = ComposeSettings]
          IN  IF config.rank_features
              THEN RunOnce(w, rec, "geoio.export_feature_ranks",
                           [algorithm |-> Algorithms[1]], "U121", "")
              ELSE LocalStep(w, [rec EXCEPT !.pc = "U121"])
    /\ Frame

\* uncoverml.py lines 121-122: x = ls.features.transform_features(...), up
\* to the collective inside it.
learn_transform(w) ==
    /\ At(w, "U121")
    /\ LET rec == wk[w]
           xs == Values(rec.extracted_chunks)
           x == IF has_data(rec.extracted_chunks) /\ CanConcatenate(xs)
                THEN concatenate(xs) ELSE None
       IN  LocalStep(w, Call([rec EXCEPT !.gd = [tag |-> "transform_features",
                                                 ref |-> "compose_settings",
                                                 ret |-> "learn", x |-> x,
                                                 x_out |-> None, X_list |-> <<>>]],
                             "compose", "transform_features", x, "U125", ""))
    /\ Frame

\* uncoverml.py line 125: x_all = ls.features.gather_features(x)
learn_gather(w) ==
    /\ At(w, "U125")
    /\ LocalStep(w, Call([wk[w] EXCEPT !.x = wk[w].gd.x_out],
                         "allgather", "gather_features", wk[w].gd.x_out,
                         "U127", "x_all"))
    /\ Frame

\* uncoverml.py lines 125-130: the gathered features are stacked (with no
\* rows anywhere that fails), then cross-validation and its export.
learn_crossval(w) ==
    /\ At(w, "U127")
    /\ LET rec == wk[w]
           x_all == gather_data_X(rec.x_all)
       IN  IF x_all = None
           THEN LocalStep(w, Raise(rec, "ValueError"))
           ELSE IF config.cross_validate
           THEN LET results == cross_validate(x_all, rec.targets_all, Algorithms[1])
                IN  RunOnce(w, [rec EXCEPT !.crossval_results = results],
                            "geoio.export_crossval",
                            [algorithm |-> Algorithms[1]], "U132", "")
           ELSE LocalStep(w, [rec EXCEPT !.pc = "U132"])
    /\ Frame

\* uncoverml.py lines 132-133: the model is learned and exported.
learn_model_export(w) ==
    /\ At(w, "U132")
    /\ LET rec == wk[w]
           model == learn_model(rec.x, rec.targets, Algorithms[1])
       IN  RunOnce(w, [rec EXCEPT !.model = model], "geoio.export_model",
                   [algorithm |-> Algorithms[1], model |-> model,
                    config |-> config],
                   "done", "")
    /\ Frame

\* ----------------------------------------------------- the cluster command
\* The Config object of a worker's process: the settings of the pipeline
\* file (config) and the attribute the process itself assigns to its
\* object, config.algorithm, which the worker's record holds as
\* wk[w].algorithm.
ConfigOf(rec) == [algorithm |-> rec.algorithm] @@ config

\* features.remove_missing(x, targets): the rows of x without a missing
\* value and the classes of those rows (None without targets). The
\* matrices that come out of transform_features have been imputed and
\* carry no missing value, so every row is kept.
remove_missing(x, targets) == [x |-> x, classes |-> targets]

\* np.arange(n, dtype=int)
arange(n) == [i \in 1..n |-> i - 1]

\* cluster.compute_n_classes(classes, config)
compute_n_classes(classes, cfg) == cfg.n_classes

\* cluster.KMeans(k, oversample_factor) after
\* model.learn(x, indices, classes).
KMeans(k, x, indices, classes) ==
    [tag |-> "KMeans", k |-> k, X |-> x, indices |-> indices,
     classes |-> classes]

\* uncoverml.py lines 140-152: cluster(pipeline_file, subsample_fraction)
\* dispatches on config.semi_supervised.
cluster(w) ==
    /\ prog = "cluster"
    /\ At(w, "U141")
    /\ LocalStep(w, [wk[w] EXCEPT !.pc = IF config.semi_supervised
                                         THEN "U158" ELSE "U182"])
    /\ Frame

\* ls.features.transform_features(image_chunk_sets, transform_sets,
\* config.final_transform) of the clustering runs, up to the collective
\* inside it.
cluster_transform_features(w, rec, listing, next) ==
    LET chunks == extract(w, listing)
        xs == Values(chunks)
        x == IF has_data(chunks) /\ CanConcatenate(xs)
             THEN concatenate(xs) ELSE None
    IN  LocalStep(w, Call([rec EXCEPT !.extracted_chunks = chunks,
                                      !.compose_settings = ComposeSettings,
                                      !.gd = [tag |-> "transform_features",
                                              ref |-> "compose_settings",
                                              ret |-> "cluster", x |-> x,
                                              x_out |-> None, X_list |-> <<>>]],
                          "compose", "transform_features", x, next, ""))

\* uncoverml.py lines 158-168: semisupervised(config) sets config.algorithm
\* on the process's Config object (wk[w].algorithm), loads the class
\* targets and the image chunks and transforms them.
semisupervised_transform(w) ==
    /\ At(w, "U158")
    /\ \E listing \in Perms(tifs) :
          cluster_transform_features(
              w, [wk[w] EXCEPT !.algorithm = config.clustering_algorithm,
                               !.targets = Local(w)],
              listing, "U170")
    /\ Frame

\* uncoverml.py lines 170-177: the missing data is stripped out, the
\* classes are learned from the labelled rows and the cluster model is
\* exported.
semisupervised_export(w) ==
    /\ At(w, "U170")
    /\ LET rec == wk[w]
           kept == remove_missing(rec.gd.x_out, rec.targets)
           indices == arange(Len(kept.classes))
           k == compute_n_classes(kept.classes, ConfigOf(rec))
           model == KMeans(k, kept.x, indices, kept.classes)
       IN  RunOnce(w, [rec EXCEPT !.x = kept.x, !.model = model],
                   "geoio.export_cluster_model",
                   [algorithm |-> rec.algorithm, model |-> model,
                    config |-> ConfigOf(rec)],
                   "done", "")
    /\ Frame

\* uncoverml.py lines 182-188: unsupervised(config) sets config.algorithm
\* on the process's Config object (wk[w].algorithm), loads the image chunks
\* and transforms them.
unsupervised_transform(w) ==
    /\ At(w, "U182")
    /\ \E listing \in Perms(tifs) :
          cluster_transform_features(
              w, [wk[w] EXCEPT !.algorithm = config.clustering_algorithm],
              listing, "U190")
    /\ Frame

\* uncoverml.py lines 190-195: the missing data is stripped out,
\* k = config.n_classes clusters are learned and the cluster model is
\* exported.
unsupervised_export(w) ==
    /\ At(w, "U190")
    /\ LET rec == wk[w]
           kept == remove_missing(rec.gd.x_out, None)
           model == KMeans(config.n_classes, kept.x, None, None)
       IN  RunOnce(w, [rec EXCEPT !.x = kept.x, !.model = model],
                   "geoio.export_cluster_model",
                   [algorithm |-> rec.algorithm, model |-> model,
                    config |-> ConfigOf(rec)],
                   "done", "")
    /\ Frame

\* ------------------------------------------------------- the predict command
AllDone == \A w \in Workers : wk[w].pc = "done"

\* uncoverml.py lines 204-208: a later run loads a bundle of the output
\* directory and reads its "model" and its "config".
predict_load ==
    /\ AllDone
    /\ pred.pc = "idle"
    /\ \E i \in DOMAIN files.state :
          LET state_dict == files.state[i].val
          IN  pred' =
                IF ~ HasKey(state_dict, "model")
                THEN [pred EXCEPT !.pc = "raised", !.error = <<"KeyError", "model">>,
                                  !.file = files.state[i].key]
                ELSE IF ~ HasKey(state_dict, "config")
                THEN [pred EXCEPT !.pc = "raised", !.error = <<"KeyError", "config">>,
                                  !.file = files.state[i].key]
                ELSE [pred EXCEPT !.pc = "L209", !.file = files.state[i].key,
                                  !.model = Get(state_dict, "model"),
                                  !.config = Get(state_dict, "config")]
    /\ UNCHANGED <<prog, nworkers, tifs, config, data, wk, effects, files, pure>>

\* ------------------------------------------------------------------ the runs
Configs ==
    { [export_targets |-> e, rank_features |-> r, cross_validate |-> c,
       algdict |-> a, method |-> "ordinary", folds |-> 5, seed |-> 1,
       impute |-> TRUE, transform |-> "whiten", pca_frac |-> 1] :
      e \in BOOLEAN, r \in BOOLEAN, c \in BOOLEAN, a \in AlgDicts }

\* The configurations of the cluster command, as the pipeline file gives
\* them: no algorithm is assigned yet.
ClusterConfigs ==
    { [semi_supervised |-> s, clustering_algorithm |-> "kmeans",
       n_classes |-> 2, algdict |-> {},
       impute |-> TRUE, transform |-> "whiten", pca_frac |-> 1] :
      s \in BOOLEAN }

WorkerData(names) ==
    UNION { [nloc : {n}, cov : [names -> CoverKinds(n)]] : n \in 0..MaxRows }

Init ==
    /\ prog \in {"run_pipeline", "learn", "cluster"}
    /\ nworkers \in 1..MaxWorkers
    /\ tifs \in Directories
    /\ config \in IF prog = "cluster" THEN ClusterConfigs ELSE Configs
    /\ prog = "learn" =>
          /\ ~ config.export_targets
          /\ Cardinality(config.algdict) = 1
          /\ tifs # {}
    /\ prog = "cluster" => tifs # {}
    /\ data \in [0 .. nworkers - 1 -> WorkerData(tifs)]
    /\ wk = [w \in 0 .. nworkers - 1 |->
                NewWorker(CASE prog = "run_pipeline" -> "L68"
                            [] prog = "learn" -> "U103"
                            [] prog = "cluster" -> "U141")]
    /\ effects = <<>>
    /\ files = [targets |-> None, featureranks |-> <<>>, scores |-> <<>>,
                state |-> <<>>]
    /\ pred = [pc |-> "idle", error |-> None, file |-> None, model |-> None,
               config |-> None]
    /\ pure = None

Next ==
    \/ \E w \in Workers : run_pipeline_targets(w)
    \/ \E w \in Workers : run_pipeline_export_targets(w)
    \/ \E w \in Workers : run_pipeline_extract(w)
    \/ \E w \in Workers : run_pipeline_rank_loop(w)
    \/ \E w \in Workers : rank_features_pass(w)
    \/ \E w \in Workers : rank_features_score(w)
    \/ \E w \in Workers : run_pipeline_export_ranks(w)
    \/ \E w \in Workers : run_pipeline_gather(w)
    \/ \E w \in Workers : gather_data_allgather(w)
    \/ \E w \in Workers : run_pipeline_gathered(w)
    \/ \E w \in Workers : run_pipeline_crossval(w)
    \/ \E w \in Workers : run_pipeline_learn(w)
    \/ \E w \in Workers : learn_targets(w)
    \/ \E w \in Workers : learn_rank(w)
    \/ \E w \in Workers : learn_transform(w)
    \/ \E w \in Workers : learn_gather(w)
    \/ \E w \in Workers : learn_crossval(w)
    \/ \E w \in Workers : learn_model_export(w)
    \/ \E w \in Workers : cluster(w)
    \/ \E w \in Workers : semisupervised_transform(w)
    \/ \E w \in Workers : semisupervised_export(w)
    \/ \E w \in Workers : unsupervised_transform(w)
    \/ \E w \in Workers : unsupervised_export(w)
    \/ RunOnceComplete
    \/ ComposeComplete
    \/ AllgatherComplete
    \/ predict_load

Spec == Init /\ [][Next]_vars

\* ------------------------- run_pipeline on three sources, any algorithm
\* Configurations naming one algorithm: a registered one, Krige with a
\* registered or an unregistered method, or an unknown identifier.
PipelineConfigs ==
    { [export_targets |-> e, rank_features |-> r, cross_validate |-> c,
       algdict |-> {a[1]}, method |-> a[2], folds |-> 5, seed |-> 1,
       impute |-> TRUE, transform |-> "whiten", pca_frac |-> 1] :
      e \in BOOLEAN, r \in BOOLEAN, c \in BOOLEAN,
      a \in { <<"bayesreg", "ordinary">>, <<"krige", "ordinary">>,
              <<"krige", "simple">>, <<"nosuchalg", "ordinary">> } }

\* Every worker either has one target that all geotiffs cover, or none.
PipelineData(names) ==
    { [nloc |-> 1, cov |-> [n \in names |-> "full"]],
      [nloc |-> 0, cov |-> [n \in names |-> "none"]] }

InitPipeline ==
    /\ prog = "run_pipeline"
    /\ nworkers \in 1..MaxWorkers
    /\ tifs = FileNames
    /\ config \in PipelineConfigs
    /\ data \in [0 .. nworkers - 1 -> PipelineData(tifs)]
    /\ wk = [w \in 0 .. nworkers - 1 |-> NewWorker("L68")]
    /\ effects = <<>>
    /\ files = [targets |-> None, featureranks |-> <<>>, scores |-> <<>>,
                state |-> <<>>]
    /\ pred = [pc |-> "idle", error |-> None, file |-> None, model |-> None,
               config |-> None]
    /\ pure = None

NextPipeline ==
    \/ \E w \in Workers : run_pipeline_targets(w)
    \/ \E w \in Workers : run_pipeline_export_targets(w)
    \/ \E w \in Workers : run_pipeline_extract(w)
    \/ \E w \in Workers : run_pipeline_rank_loop(w)
    \/ \E w \in Workers : rank_features_pass(w)
    \/ \E w \in Workers : rank_features_score(w)
    \/ \E w \in Workers : run_pipeline_export_ranks(w)
    \/ \E w \in Workers : run_pipeline_gather(w)
    \/ \E w \in Workers : gather_data_allgather(w)
    \/ \E w \in Workers : run_pipeline_gathered(w)
    \/ \E w \in Workers : run_pipeline_crossval(w)
    \/ \E w \in Workers : run_pipeline_learn(w)
    \/ RunOnceComplete
    \/ ComposeComplete
    \/ AllgatherComplete

SpecPipeline == InitPipeline /\ [][NextPipeline]_vars

\* ------------------------------------------- export_feature_ranks on its own
MaxFeatures == 3     \* features handed to export_feature_ranks
MaxScore == 2        \* scores range over 0..MaxScore

FeatureNames == << <<"d", "e", "m">>, <<"l", "a">>, <<"m", "a", "g">>,
                   <<"r", "a", "d">> >>

\* The measures in either order, and one named twice.
MeasureLists == { Measures, <<smse, r2_score>>, <<smse, smse>> }

RankInputs(n) ==
    { [tag |-> "export_feature_ranks", measures |-> ms,
       features |-> SubSeq(FeatureNames, 1, n), scores |-> sc,
       out |-> None] :
      ms \in MeasureLists,
      sc \in [1..Len(Measures) -> [1..n -> 0..MaxScore]] }

InitRanks ==
    /\ prog = "export_feature_ranks"
    /\ nworkers = 0
    /\ tifs = {}
    /\ config = None
    /\ data = <<>>
    /\ wk = <<>>
    /\ effects = <<>>
    /\ files = [targets |-> None, featureranks |-> <<>>, scores |-> <<>>,
                state |-> <<>>]
    /\ pred = [pc |-> "idle", error |-> None, file |-> None, model |-> None,
               config |-> None]
    /\ \E n \in 0..MaxFeatures : pure \in RankInputs(n)

\* export_feature_ranks(measures, features, scores, algorithm, config)
apply_export_feature_ranks ==
    /\ pure.out = None
    /\ pure' = [pure EXCEPT
                   !.out = export_feature_ranks(pure.measures, pure.features,
                                                pure.scores)]
    /\ UNCHANGED <<prog, nworkers, tifs, config, data, wk, effects, files, pred>>

NextRanks == apply_export_feature_ranks

SpecRanks == InitRanks /\ [][NextRanks]_vars

\* ------------------------------------------- the predict command's loop
MaxPartitions == 3   \* --partitions of the predict command: 0..MaxPartitions

\* range(n)
range(n) == [k \in 1..n |-> k - 1]

\* ls.predict.render_partition(model, i, image_out, config): the stages a
\* sub-chunk goes through.
RenderStages == <<"ExtractFeatures", "ApplyStoredCompose", "Predict", "WriteRegion">>

\* A worker entering the predict command.
NewPredictWorker ==
    [pc |-> "U204", error |-> None, n_subchunks |-> 0, k |-> 1, stage |-> 0,
     log |-> <<>>, pending |-> None, calls |-> <<>>]

\* uncoverml.py lines 216-221: the calls that set the output raster up, in
\* the order they are evaluated.
SetupCalls == <<"get_image_spec", "get_predict_tags", "ImageWriter">>

\* Per worker: the sub-chunk whose rendering raises (-1: none does) and the
\* set-up call that raises ("none": none does).
RenderFaults(S) == [fails : -1 .. S - 1, setup : {"none"} \cup Range(SetupCalls)]

\* The bundles a predict run may be pointed at: the one run_pipeline's
\* export_model writes and the one the learn and cluster commands write.
PredictBundles ==
    LET model == learn_model(None, None, "bayesreg")
        cfg == [name |-> "run", algorithm |-> "bayesreg"]
    IN  { export_model(model, <<>>, None),
          geoio_export_model(model, cfg) }

\* The output directory a predict run finds: no bundle, or one of them.
PredictFiles ==
    { <<>> } \cup { << [key |-> "bayesreg", val |-> b] >> : b \in PredictBundles }

InitPredict ==
    /\ prog = "predict"
    /\ nworkers \in 1..MaxWorkers
    /\ tifs = {}
    /\ config \in [partitions : 0..MaxPartitions]
    /\ data \in [0 .. nworkers - 1 -> RenderFaults(config.partitions)]
    /\ wk = [w \in 0 .. nworkers - 1 |-> NewPredictWorker]
    /\ effects = <<>>
    /\ \E state \in PredictFiles :
          files = [targets |-> None, featureranks |-> <<>>, scores |-> <<>>,
                   state |-> state]
    /\ pred = [pc |-> "idle", error |-> None, file |-> None, model |-> None,
               config |-> None]
    /\ pure = None

\* uncoverml.py lines 204-208: open(model_or_cluster_file, 'rb') raises
\* FileNotFoundError when there is no bundle; state_dict["model"] and
\* state_dict["config"] raise KeyError when the bundle lacks the field.
\* The exception raised, or None.
predict_read(state) ==
    IF state = <<>> THEN [tag |-> "FileNotFoundError", key |-> ""]
    ELSE LET state_dict == state[1].val
         IN  IF ~ HasKey(state_dict, "model")
             THEN [tag |-> "KeyError", key |-> "model"]
             ELSE IF ~ HasKey(state_dict, "config")
             THEN [tag |-> "KeyError", key |-> "config"]
             ELSE None

\* uncoverml.py lines 204-209: the bundle is read, which may raise; then
\* config.n_subchunks is set from --partitions.
predict_open(w) ==
    /\ prog = "predict"
    /\ At(w, "U204")
    /\ LET raised == predict_read(files.state)
       IN  IF raised # None
           THEN LocalStep(w, [wk[w] EXCEPT !.pc = "raised", !.error = raised])
           ELSE LocalStep(w, [wk[w] EXCEPT !.n_subchunks = config.partitions,
                                           !.pc = "U216"])
    /\ Frame

\* uncoverml.py lines 216-221: ls.geoio.get_image_spec(model, config),
\* model.get_predict_tags() and ls.geoio.ImageWriter(...) set the output
\* raster up; an exception in one of them leaves predict before the loop.
predict_setup(w) ==
    /\ At(w, "U216")
    /\ IF data[w].setup # "none"
       THEN LocalStep(w, [wk[w] EXCEPT !.pc = "raised",
                                       !.error = [tag |-> "Exception",
                                                  key |-> data[w].setup]])
       ELSE LocalStep(w, [wk[w] EXCEPT !.k = 1, !.pc = "U223"])
    /\ Frame

\* uncoverml.py lines 223-226: the head of the loop over
\* range(config.n_subchunks); after the last index, "Finished!".
predict_loop(w) ==
    /\ At(w, "U223")
    /\ LET rec == wk[w]
           indices == range(rec.n_subchunks)
       IN  IF rec.k <= Len(indices)
           THEN LocalStep(w, [rec EXCEPT !.pc = "U225", !.stage = 1,
                                         !.log = Append(@, <<"start", indices[rec.k]>>)])
           ELSE LocalStep(w, [rec EXCEPT !.pc = "done"])
    /\ Frame

\* uncoverml.py line 225: ls.predict.render_partition(model, i, image_out,
\* config), one stage at a time; an exception in it leaves predict.
render_partition(w) ==
    /\ At(w, "U225")
    /\ LET rec == wk[w]
           i == range(rec.n_subchunks)[rec.k]
       IN  IF data[w].fails = i
           THEN LocalStep(w, [rec EXCEPT !.pc = "raised",
                                         !.error = [tag |-> "Exception",
                                                    stage |-> RenderStages[rec.stage]]])
           ELSE IF rec.stage < Len(RenderStages)
           THEN LocalStep(w, [rec EXCEPT !.stage = @ + 1])
           ELSE LocalStep(w, [rec EXCEPT !.stage = 0, !.k = @ + 1, !.pc = "U223",
                                         !.log = Append(@, <<"end", i>>)])
    /\ Frame

NextPredict ==
    \/ \E w \in Workers : predict_open(w)
    \/ \E w \in Workers : predict_setup(w)
    \/ \E w \in Workers : predict_loop(w)
    \/ \E w \in Workers : render_partition(w)

\* The workers are processes that keep running: a step that can be taken
\* is taken.
SpecPredict == InitPredict /\ [][NextPredict]_vars /\ WF_vars(NextPredict)

\* ------------------------------------------------- calls on a Krige object
InitKrige ==
    /\ prog = "krige"
    /\ nworkers = 0
    /\ tifs = {}
    /\ config = None
    /\ data = <<>>
    /\ wk = <<>>
    /\ effects = <<>>
    /\ files = [targets |-> None, featureranks |-> <<>>, scores |-> <<>>,
                state |-> <<>>]
    /\ pred = [pc |-> "idle", error |-> None, file |-> None, model |-> None,
               config |-> None]
    /\ pure = [tag |-> "krige", self |-> None, calls |-> <<>>]

\* One call on the object: what was called, how it ended, and the object
\* before and after.
KrigeCall(op, arg, r) ==
    /\ Len(pure.calls) < MaxCalls
    /\ pure' = [pure EXCEPT
                  !.self = r.self,
                  !.calls = Append(@, [op |-> op, arg |-> arg, raised |-> r.raised,
                                       before |-> pure.self, after |-> r.self])]
    /\ UNCHANGED <<prog, nworkers, tifs, config, data, wk, effects, files, pred>>

call_Krige_init ==
    /\ pure.self = None
    /\ \E method \in MethodNames : KrigeCall("__init__", method, Krige_init(method))

call_Krige_fit ==
    /\ pure.self # None
    /\ \E x \in PointSets : KrigeCall("fit", x, Krige_fit(pure.self, x, x))

call_Krige_predict_proba ==
    /\ pure.self # None
    /\ \E x \in PointSets :
          KrigeCall("predict_proba", x, Krige_predict_proba(pure.self, x))

call_Krige_predict ==
    /\ pure.self # None
    /\ \E x \in PointSets : KrigeCall("predict", x, Krige_predict(pure.self, x))

NextKrige ==
    \/ call_Krige_init
    \/ call_Krige_fit
    \/ call_Krige_predict_proba
    \/ call_Krige_predict

SpecKrige == InitKrige /\ [][NextKrige]_vars

\* ------------------------------------------------------------------ claims
SomeRaised == \E w \in Workers : wk[w].pc \in {"raised", "exited"}
Blocked(w) == wk[w].pending # None

\* The functions that write into the output directory.
ExportFns == {"write_targets", "export_feature_ranks", "export_scores",
              "export_model", "geoio.export_feature_ranks",
              "geoio.export_crossval", "geoio.export_model",
              "geoio.export_cluster_model"}
ModelExportFns == {"export_model", "geoio.export_model"}

\* How often the model of algorithm a has been persisted.
ModelExports(a) ==
    Cardinality({ i \in DOMAIN effects :
                    effects[i].fn \in ModelExportFns /\ effects[i].algorithm = a })

\* C1: in a learn run (run_pipeline and the learn command) every export is
\* executed by the coordinator, rank 0, and by no other worker, and each
\* algorithm's model is persisted at most once, exactly once when the run
\* has finished.
C1_ExportsOnCoordinatorOnly ==
    /\ \A i \in DOMAIN effects :
          effects[i].fn \in ExportFns => effects[i].rank = 0
    /\ \A i \in DOMAIN Algorithms : ModelExports(Algorithms[i]) <= 1
    /\ AllDone =>
          \A i \in DOMAIN Algorithms :
             (prog = "run_pipeline" \/ i = 1) => ModelExports(Algorithms[i]) = 1

\* A finished run_pipeline of two workers and two algorithms that exported
\* everything it can export.
C1_Witness ==
    /\ prog = "run_pipeline"
    /\ nworkers = 2
    /\ AllDone
    /\ Len(Algorithms) = 2
    /\ config.export_targets /\ config.rank_features /\ config.cross_validate
    /\ Len(files.state) = 2

\* C2: when a worker has raised before a collective the others reach, the
\* run does not end with a worker still blocked in a collective.
C2_RaiseAbortsRun ==
    (SomeRaised /\ ~ ENABLED Next) => \A w \in Workers : ~ Blocked(w)

IsPrefix(a, b) == Len(a) <= Len(b) /\ SubSeq(b, 1, Len(a)) = a

\* C3: in a run of run_pipeline in which no worker raises, the workers'
\* sequences of collective calls agree (one is a prefix of the other while
\* they run, they are equal when all have finished), and whenever every
\* unfinished worker waits in a collective, the whole group waits in the
\* same kind of collective, which is what lets it complete.
C3_SameCollectivesNoDeadlock ==
    (prog = "run_pipeline" /\ ~ SomeRaised) =>
        /\ \A v, w \in Workers :
              IsPrefix(wk[v].calls, wk[w].calls) \/ IsPrefix(wk[w].calls, wk[v].calls)
        /\ AllDone => \A v, w \in Workers : wk[v].calls = wk[w].calls
        /\ (\A w \in Workers : Blocked(w) \/ wk[w].pc = "done") =>
              \/ AllDone
              \/ \E kind \in {"bcast", "compose", "allgather"} : AllPending(kind)

\* A finished run of two workers, one of them without any data, with
\* feature ranking and cross-validation.
C3_Witness ==
    /\ prog = "run_pipeline"
    /\ nworkers = 2
    /\ AllDone
    /\ config.rank_features /\ config.cross_validate
    /\ Cardinality(tifs) = 2
    /\ \E w \in Workers : data[w].nloc = 0
    /\ Len(wk[0].calls) > 10

RowsOf(x) == IF x = None THEN <<>> ELSE x.rows

\* The composed chunks the workers contributed to the gather of line 102.
ComposedChunks == [i \in 1..nworkers |-> wk[i - 1].gd.x_out]

\* C4: the X gather_data returns at line 102 is, on every worker, the stack
\* of the workers' composed chunks in rank order; its row count is the sum
\* of their row counts; with every source present everywhere it is the
\* whole dataset, however the targets are partitioned over the workers.
C4_GatherStacksInRankOrder ==
    \A w \in Workers :
       (prog = "run_pipeline" /\ wk[w].X # None) =>
          /\ wk[w].X.rows = Flatten([i \in 1..nworkers |-> RowsOf(ComposedChunks[i])])
          /\ Len(wk[w].X.rows) =
                SumSeq([i \in 1..nworkers |-> Len(RowsOf(ComposedChunks[i]))])
          /\ \A v \in Workers : wk[v].X # None => wk[v].X = wk[w].X
          /\ (\A v \in Workers : \A n \in tifs : data[v].cov[n] = "full") =>
                wk[w].X.rows = [i \in 1..NTargets |-> i]

\* Two workers that both contributed rows and both hold X.
C4_Witness ==
    /\ prog = "run_pipeline"
    /\ nworkers = 2
    /\ \A w \in Workers : wk[w].X # None /\ Len(RowsOf(wk[w].gd.x_out)) = 2
    /\ Len(wk[1].X.rows) = 4

\* C5: whenever gather_data returns X to run_pipeline from a gather to
\* which some worker contributed None, X still has one row per target, in
\* the targets' order (a gather that lost rows does not return).
C5_XAlignedWithTargets ==
    \A w \in Workers :
       (/\ prog = "run_pipeline"
        /\ wk[w].X # None
        /\ \E i \in DOMAIN wk[w].gd.X_list : wk[w].gd.X_list[i] = None) =>
          wk[w].X.rows = wk[w].targets.ids

\* Worker w is in, or has left, a gather_data call to which nobody
\* contributed a row.
EmptyGather(w) ==
    /\ wk[w].gd # None
    /\ wk[w].gd.tag = "gather_data"
    /\ wk[w].gd.X_list # <<>>
    /\ \A i \in DOMAIN wk[w].gd.X_list : wk[w].gd.X_list[i] = None

\* C6: a gather_data call to which no worker contributes a row returns on
\* no worker; every worker raises in it, so that nothing downstream runs:
\* no scores and no model are exported.
C6_EmptyGatherFails ==
    \A w \in Workers :
       EmptyGather(w) =>
          /\ wk[w].pc \in {"L156", "raised"}
          /\ wk[w].pc = "raised" => wk[w].error = "ValueError"
          /\ wk[w].gd.ret = "main" =>
                /\ wk[w].X = None
                /\ \A i \in DOMAIN effects :
                      effects[i].fn \notin {"export_scores", "export_model"}
                /\ files.state = <<>> /\ files.scores = <<>>
          /\ ~ ENABLED Next => \A v \in Workers : wk[v].pc = "raised"

\* Both workers of a group have raised in the gather of line 102.
C6_Witness ==
    /\ nworkers = 2
    /\ \A w \in Workers :
          EmptyGather(w) /\ wk[w].gd.ret = "main" /\ wk[w].pc = "raised"

\* C7: with two or more sources, when rank_features has run its passes it
\* has run one per source and holds one entry per source, the entry of
\* source s being the result on the dataset of all sources but s.
C7_OneEntryPerSource ==
    \A w \in Workers :
       (/\ wk[w].pc = "L122"
        /\ wk[w].pass > Len(wk[w].extracted_chunks)
        /\ Cardinality(tifs) >= 2) =>
          /\ wk[w].pass - 1 = Cardinality(tifs)
          /\ Len(wk[w].feature_scores) = Cardinality(tifs)
          /\ \A i \in DOMAIN wk[w].extracted_chunks :
                LET name == wk[w].extracted_chunks[i].key
                    fname == rstrip(name, {".", "t", "i", "f"})
                IN  /\ HasKey(wk[w].feature_scores, fname)
                    /\ Get(wk[w].feature_scores, fname).X.cols =
                          Keys(DictDel(wk[w].extracted_chunks, name))

\* The row of the scores argument that a measure's entry is written from:
\* the last one carrying its name.
LastRow(measures, m) ==
    CHOOSE i \in DOMAIN measures :
       /\ measures[i] = m
       /\ \A j \in DOMAIN measures : measures[j] = m => j <= i

\* C8: whenever export_feature_ranks writes its file, the file has for
\* every measure the features as a permutation of its input, the scores in
\* non-decreasing order, each rank next to its own score; the
\* lower-is-better measures are not reversed.
C8_RanksAscending ==
    (pure.out # None /\ pure.out # Exc("ValueError")) =>
       /\ Range(Keys(pure.out.ranks)) = Range(pure.measures)
       /\ Range(Keys(pure.out.scores)) = Range(pure.measures)
       /\ \A m \in Range(pure.measures) :
             LET ranks == Get(pure.out.ranks, m)
                 scores == Get(pure.out.scores, m)
                 given == pure.scores[LastRow(pure.measures, m)]
             IN  /\ Len(ranks) = Len(pure.features)
                 /\ Len(scores) = Len(pure.features)
                 /\ Range(ranks) = Range(pure.features)
                 /\ \A j, k \in DOMAIN scores : j < k => scores[j] <= scores[k]
                 /\ \A j \in DOMAIN ranks :
                       \E f \in DOMAIN pure.features :
                          pure.features[f] = ranks[j] /\ given[f] = scores[j]

\* Three features whose scores had to be reordered for the lower-is-better
\* measure, which was passed first and is written second.
C8_Witness ==
    /\ pure.out # None
    /\ Len(pure.features) = 3
    /\ pure.measures = <<smse, r2_score>>
    /\ pure.scores[1] = <<2, 0, 1>>
    /\ pure.out.ranks[2].key = smse
    /\ pure.out.ranks[2].val = <<pure.features[2], pure.features[3], pure.features[1]>>

\* C9: the compose_settings persisted with a model are filled in, and are
\* the statistics the model's training dataset X was composed with,
\* computed over the columns of that dataset.
C9_PersistedComposeState ==
    prog = "run_pipeline" =>
       \A i \in DOMAIN files.state :
          LET cs == Get(files.state[i].val, "compose_settings")
              X == Get(files.state[i].val, "model").X
          IN  /\ cs.impute_mean # None /\ cs.mean # None /\ cs.sd # None
              /\ cs.eigvals # None /\ cs.eigvecs # None
              /\ X.by = cs.mean
              /\ cs.mean.cols = X.cols

\* A model persisted by a run that ranked two features first.
C9_Witness ==
    /\ prog = "run_pipeline"
    /\ config.rank_features
    /\ Cardinality(tifs) = 2
    /\ nworkers = 2
    /\ Len(files.state) = 2

\* C10: the predict command never fails on a field missing from a bundle
\* that a learn run persisted.
C10_BundleReadable == pred.pc # "raised"

\* The rendering events of a worker that went through S sub-chunks.
RenderLog(S) ==
    [j \in 1 .. 2 * S |-> IF j % 2 = 1 THEN <<"start", (j - 1) \div 2>>
                          ELSE <<"end", (j - 2) \div 2>>]

\* What a worker has rendered is a prefix of "start 0, end 0, ..., start
\* S-1, end S-1", and all of it once the worker is done.
C11_InOrderOnce ==
    \A w \in Workers :
       /\ IsPrefix(wk[w].log, RenderLog(config.partitions))
       /\ wk[w].pc = "done" => wk[w].log = RenderLog(config.partitions)
       /\ wk[w].pc = "U225" => wk[w].log[Len(wk[w].log)][1] = "start"

\* C11: a predict worker renders the sub-chunks 0, 1, ..., S-1 in that
\* order, each once, starting one only after the previous one has been
\* rendered completely, and is done after the last; with S >= 1 a worker
\* that is pointed at a bundle a learn run wrote, whose set-up calls succeed
\* and none of whose renders fails does become done.
C11_SubchunksInOrder ==
    /\ [] C11_InOrderOnce
    /\ \A w \in 0 .. MaxWorkers - 1 :
          (w \in Workers /\ prog = "predict" /\ config.partitions >= 1
             /\ files.state # <<>>
             /\ data[w].setup = "none" /\ data[w].fails = -1)
             ~> (w \in Workers /\ wk[w].pc = "done")

\* C12: a worker leaves predict only when every worker has rendered all of
\* its sub-chunks, and once all have left the coordinator, and nobody
\* else, has finalized the raster through run_once.
C12_FinalizedAfterBarrier ==
    prog = "predict" =>
       /\ \A w \in Workers :
             wk[w].pc = "done" =>
                \A v \in Workers : wk[v].log = RenderLog(config.partitions)
       /\ AllDone =>
             /\ \E i \in DOMAIN effects : effects[i].fn = "close"
             /\ \A i \in DOMAIN effects :
                   effects[i].fn = "close" => effects[i].rank = 0

\* C14: no Krige object exists for a method outside the registry (the
\* constructor raises ConfigException); an object is untrained until fit
\* has been called on it, fit alone trains it, and predict / predict_proba
\* on an untrained object raise and leave it as it was.
C14_KrigeRegistry ==
    /\ pure.self # None => pure.self.method \in {"ordinary", "universal"}
    /\ \A j \in DOMAIN pure.calls :
          LET c == pure.calls[j]
          IN  /\ (c.op = "__init__" /\ c.arg \notin {"ordinary", "universal"}) =>
                    (c.raised = Exc("ConfigException") /\ c.after = None)
              /\ (c.op = "__init__" /\ c.arg \in {"ordinary", "universal"}) =>
                    (c.raised = None /\ c.after.model = None)
              /\ c.op # "__init__" =>
                    ((c.before.model = None /\ c.after.model # None) => c.op = "fit")
              /\ c.op \in {"predict", "predict_proba"} =>
                    /\ c.after = c.before
                    /\ c.before.model = None => c.raised = Exc("AttributeError")

\* An unregistered method was refused, then a registered object was asked
\* to predict before and after it was fitted.
C14_Witness ==
    /\ Len(pure.calls) = 4
    /\ pure.calls[1].op = "__init__" /\ pure.calls[1].raised = Exc("ConfigException")
    /\ pure.calls[2].op = "__init__" /\ pure.calls[2].raised = None
    /\ pure.calls[3].op = "predict" /\ pure.calls[3].raised = Exc("AttributeError")
    /\ pure.calls[4].op = "fit" /\ pure.self.model # None

\* C13: a worker that fails on the configured algorithm (an identifier
\* outside the registry, or a Krige method outside krige_methods) has
\* issued no collective call before, and no worker waits in one.
C13_ConfigErrorBeforeCollectives ==
    \A w \in Workers :
       (wk[w].pc = "raised" /\ wk[w].error \in {"ConfigError", "ConfigException"}) =>
          /\ wk[w].calls = <<>>
          /\ \A v \in Workers : wk[v].calls = <<>> /\ ~ Blocked(v)

Ascending(keys) == \A i, j \in DOMAIN keys : i < j => StrLess(keys[i], keys[j])

\* The sources of the directory, ascending by file name.
SortedSources == CHOOSE q \in Perms(tifs) : Ascending(q)

\* Worker w is inside gather_data.
InGather(w) ==
    \/ wk[w].pc \in {"L155", "L156"}
    \/ Blocked(w) /\ wk[w].pending.kind \in {"compose", "allgather"}

\* C16: on every worker the result of extract lists the sources ascending
\* by name; pass k of rank_features withholds the k-th of them; every
\* gather_data call concatenates its chunks ascending by name; so X has
\* the same columns, in the same order, on all workers.
C16_SourcesAscending ==
    \A w \in Workers :
       LET rec == wk[w]
       IN  /\ rec.extracted_chunks # <<>> =>
                Keys(rec.extracted_chunks) = SortedSources
           /\ (rec.gd # None /\ rec.gd.tag = "gather_data") =>
                /\ Ascending(Keys(rec.gd.chunks))
                /\ rec.gd.x # None => rec.gd.x.cols = Keys(rec.gd.chunks)
                /\ (rec.gd.ret = "rank" /\ InGather(w)) =>
                      Keys(rec.gd.chunks) =
                         SelectSeq(SortedSources, LAMBDA n : n # SortedSources[rec.pass])
           /\ rec.X # None =>
                /\ rec.X.cols = SortedSources
                /\ \A v \in Workers : wk[v].X # None => wk[v].X.cols = rec.X.cols

\* Two workers with data hold X after ranking three sources.
C16_Witness ==
    /\ Cardinality(tifs) = 3
    /\ nworkers = 2
    /\ config.rank_features
    /\ \A w \in Workers :
          /\ data[w].nloc = 1
          /\ wk[w].X # None
          /\ Len(wk[w].X.cols) = 3
          /\ wk[w].gd.ret = "main"

\* The invocations of get_targets so far.
TargetLoads == { i \in DOMAIN effects : effects[i].fn = "get_targets" }

\* C15: in run_pipeline get_targets is invoked at most once, by the
\* coordinator; a worker past line 72 holds the targets that invocation
\* produced, the same value on every worker, until the end of the run.
C15_TargetsLoadedOnce ==
    prog = "run_pipeline" =>
       /\ Cardinality(TargetLoads) <= 1
       /\ \A i \in TargetLoads : effects[i].rank = 0
       /\ \A w \in Workers :
             /\ wk[w].pc # "L68" <=> wk[w].targets # None
             /\ wk[w].targets # None =>
                   /\ Cardinality(TargetLoads) = 1
                   /\ wk[w].targets = get_targets
                   /\ \A v \in Workers :
                         wk[v].targets # None => wk[v].targets = wk[w].targets

\* Two workers have finished a run over three targets.
C15_Witness ==
    /\ prog = "run_pipeline"
    /\ nworkers = 2
    /\ AllDone
    /\ NTargets = 3
    /\ \A w \in Workers : Len(wk[w].targets.ids) = 3

\* Some chunk of the sources handed to gather_data is None.
SomeChunkMissing(chunks) == \E i \in DOMAIN chunks : chunks[i].val = None

\* C17: in gather_data a worker with a None chunk passes None to the
\* composition and contributes None to the allgather; a worker with every
\* chunk present passes and contributes the column-wise concatenation of
\* all of them.
C17_AllOrNothing ==
    \A w \in Workers :
       (wk[w].gd # None /\ wk[w].gd.tag = "gather_data") =>
          LET gd == wk[w].gd
              composing == Blocked(w) /\ wk[w].pending.kind = "compose"
              composed == wk[w].pc = "L155" \/ gd.X_list # <<>>
          IN  /\ composing => wk[w].pending.arg = gd.x
              /\ SomeChunkMissing(gd.chunks) =>
                    /\ gd.x = None
                    /\ gd.x_out = None
                    /\ gd.X_list # <<>> => gd.X_list[w + 1] = None
              /\ ~ SomeChunkMissing(gd.chunks) =>
                    /\ gd.x # None
                    /\ gd.x.cols = Keys(gd.chunks)
                    /\ \A i \in DOMAIN gd.chunks : gd.chunks[i].val.rows = gd.x.rows
                    /\ composed =>
                          /\ gd.x_out # None
                          /\ gd.x_out.cols = gd.x.cols /\ gd.x_out.rows = gd.x.rows
                    /\ gd.X_list # <<>> => gd.X_list[w + 1] = gd.x_out

\* A worker holding one source but not the other contributed None to a
\* gather to which the other worker contributed two columns.
C17_Witness ==
    /\ nworkers = 2
    /\ \E w, v \in Workers :
          /\ wk[w].gd # None /\ wk[w].gd.tag = "gather_data" /\ wk[w].gd.ret = "main"
          /\ SomeChunkMissing(wk[w].gd.chunks)
          /\ \E i \in DOMAIN wk[w].gd.chunks : wk[w].gd.chunks[i].val # None
          /\ wk[w].gd.X_list # <<>>
          /\ wk[w].gd.X_list[w + 1] = None
          /\ wk[w].gd.X_list[v + 1] # None
          /\ Len(wk[w].gd.X_list[v + 1].cols) = 2

\* Worker w has not yet entered the gather_data call of line 102.
BeforeMainGather(w) ==
    /\ wk[w].compose_settings # None
    /\ ~ (wk[w].gd # None /\ wk[w].gd.ret = "main")

\* C18: from extract on, the worker's extracted_chunks hold every source
\* with the chunk extract produced; until the gather_data call of line 102
\* its compose_settings are the all-None settings of lines 81-89, whatever
\* rank_features did in between.
C18_RankingLeavesStateUnchanged ==
    prog = "run_pipeline" =>
       \A w \in Workers :
          /\ wk[w].extracted_chunks # <<>> =>
                /\ Range(Keys(wk[w].extracted_chunks)) = tifs
                /\ Len(wk[w].extracted_chunks) = Cardinality(tifs)
                /\ \A i \in DOMAIN wk[w].extracted_chunks :
                      wk[w].extracted_chunks[i].val =
                         extract_features(w, wk[w].extracted_chunks[i].key)
          /\ BeforeMainGather(w) => wk[w].compose_settings = ComposeSettings

\* A worker about to enter the gather of line 102 after ranking passes
\* that filled their own copies of the settings.
C18_Witness ==
    /\ prog = "run_pipeline"
    /\ nworkers = 2
    /\ Cardinality(tifs) = 2
    /\ \E w \in Workers :
          /\ wk[w].pc = "L102"
          /\ Len(wk[w].feature_scores) >= 1
          /\ wk[w].compose_missing # None
          /\ wk[w].compose_missing.mean # None
          /\ wk[w].compose_settings.mean = None

\* The dataset and the targets cross-validation is run on.
GlobalX(w) ==
    IF prog = "run_pipeline" THEN wk[w].X ELSE gather_data_X(wk[w].x_all)

GlobalTargets(w) ==
    IF prog = "run_pipeline" THEN wk[w].targets.ids ELSE wk[w].targets_all

TargetIds(t) == IF prog = "run_pipeline" THEN t.ids ELSE t

\* C19: the model a learn run fits is fitted on the globally gathered
\* dataset and on all targets, the data cross-validation is run on.
C19_ModelFittedOnGlobalData ==
    \A w \in Workers :
       (prog \in {"run_pipeline", "learn"} /\ wk[w].model # None) =>
          /\ wk[w].model.X = GlobalX(w)
          /\ TargetIds(wk[w].model.targets) = GlobalTargets(w)

====
